---- MODULE Spec2Model ----
(***************************************************************************)
(* Verification model of the StockGuardian portfolio tracker:              *)
(*   - the scoring engine          (lib/calculators: calculateStockScore)  *)
(*   - the risk engine             (components/stocks/RiskMetrics.tsx)     *)
(*   - the portfolio hook          (hooks/useStockQuotes.ts)               *)
(*   - the valuation formulas      (lib/calculators: getScoreLabel,        *)
(*                                  calculateGrahamValue, getValuationStatus)*)
(*   - the discounted cash flow    (components/stocks/DCFValuation.tsx)    *)
(*                                                                         *)
(* Numbers.  The program computes on IEEE doubles; the model computes on   *)
(* integers in fixed units, chosen so that every threshold of the code is  *)
(* an integer:                                                             *)
(*   roe            in units of 0.05   (0.10 = 2, 0.15 = 3, 0.20 = 4)      *)
(*   debtToEbitda   in units of 0.5    (1.5 = 3, 2.0 = 4, 3.0 = 6)         *)
(*   dividendYield  in units of 0.02   (0.04 = 2, 0.06 = 3)                *)
(*   pl             in units of 10     (10 = 1, 20 = 2, 30 = 3)            *)
(*   evEbitda       in units of 2      (6 = 3, 12 = 6, 20 = 10)            *)
(*   price, grahamValue, cost in currency units                            *)
(*   changePercent  in percent points                                      *)
(*   quantity (risk engine) in units of 1/QtyScale of a share              *)
(*   roe (calculateDCF) in percent points                                  *)
(* Quotients are kept exact as pairs <<numerator, denominator>>, and a     *)
(* value the code obtains through Math.sqrt is carried as its square.      *)
(***************************************************************************)
EXTENDS Integers, Sequences, FiniteSets, Bags, TLC

VARIABLES
    scoreIn,      \* the ScoreInput handed to calculateStockScore
    scoreOut,     \* its result {total, breakdown}, or NoResult before the call
    riskStocks,   \* the stocks prop of the RiskMetrics component
    riskOut,      \* the memoised metrics of RiskMetrics, or NoResult
    stocks,       \* useStockQuotes: the portfolio list (useState)
    isRefreshing, \* useStockQuotes: the isRefreshing flag (useState)
    error,        \* useStockQuotes: the error message or Null (useState)
    inflight,     \* useStockQuotes: the requests awaiting their response
    formulaIn,    \* the arguments handed to a valuation formula
    formulaOut,   \* what the formula returned, or NoResult before the call
    dcfStock,     \* the holding handed to calculateDCF
    dcfOut,       \* the result of calculateDCF, or NoResult before the call
    lastOp        \* the handler that ran last and what it was applied to

vars == <<scoreIn, scoreOut, riskStocks, riskOut, stocks, isRefreshing, error,
          inflight, lastOp, formulaIn, formulaOut, dcfStock, dcfOut>>

scoreVars == <<scoreIn, scoreOut>>
riskVars == <<riskStocks, riskOut>>
hookVars == <<stocks, isRefreshing, error, inflight, lastOp>>

valuationVars == <<formulaIn, formulaOut, dcfStock, dcfOut>>

NoResult == [none |-> TRUE]
Null == "null"

ValuationIdle ==
    /\ formulaIn = [none |-> TRUE] /\ formulaOut = NoResult
    /\ dcfStock = [none |-> TRUE] /\ dcfOut = NoResult

----------------------------------------------------------------------------
(* Bounds of the sampled inputs *)

MaxPrice == 1
MaxGraham == 1
MaxRoe == 5
MaxDebt == 7
MaxDividendYield == 4
MaxPl == 4
MaxEvEbitda == 10
MaxHoldings == 3
MaxRiskPrice == 1
MaxQty == 2
MaxChange == 1
QtyScale == 2
MaxInFlight == 2
MaxQuoteVersion == 2
MaxScore == 101
MaxLpa == 3
MaxVpa == 3
MaxCurrentPrice == 12
MaxIntrinsicValue == 10
MaxDcfLpa == 2
MaxRoePercent == 16
MaxDcfPrice == 14
MaxVarPercent == 6
MaxVolatility == 6
MaxPositions == 2
MaxMarketPrice == 3
MaxCost == 2
MaxShares == 2
MaxValued == 2
MaxLpaSteps == 1
MaxPriceSteps == 5

----------------------------------------------------------------------------
(* lib/calculators: calculateStockScore *)

PriceScore(price, grahamValue) ==
    IF grahamValue > 0 /\ price < grahamValue THEN 25 ELSE 0

MutProfitabilityScore(roe) ==
    IF roe >= 4 THEN 20
    ELSE IF roe >= 3 THEN 15
    ELSE IF roe >= 2 THEN 10
    ELSE 0

ProfitabilityScore(roe) ==
    IF roe > 4 THEN 20
    ELSE IF roe >= 3 THEN 15
    ELSE IF roe >= 2 THEN 10
    ELSE 0

HealthScore(debtToEbitda) ==
    IF debtToEbitda >= 0 /\ debtToEbitda < 3 THEN 20
    ELSE IF debtToEbitda < 4 THEN 15
    ELSE IF debtToEbitda <= 6 THEN 10
    ELSE 0

MutDividendScore(dividendYield) ==
    IF dividendYield > 3 THEN 10
    ELSE IF dividendYield >= 2 THEN 10
    ELSE 0

DividendScore(dividendYield) ==
    IF dividendYield > 3 THEN 20
    ELSE IF dividendYield >= 2 THEN 10
    ELSE 0

PlScore(pl) ==
    IF pl > 0 /\ pl <= 1 THEN 8
    ELSE IF pl <= 2 THEN 5
    ELSE IF pl <= 3 THEN 2
    ELSE 0

EvEbitdaScore(evEbitda) ==
    IF evEbitda > 0 /\ evEbitda < 3 THEN 7
    ELSE IF evEbitda < 6 THEN 4
    ELSE IF evEbitda < 10 THEN 1
    ELSE 0

MutScoreTotal(b) ==
    b.priceScore + b.profitabilityScore + b.healthScore + b.dividendScore

ScoreTotal(b) ==
    b.priceScore + b.profitabilityScore + b.healthScore + b.dividendScore
        + b.valuationScore

calculateStockScore(input) ==
    LET breakdown ==
            [priceScore |-> PriceScore(input.price, input.grahamValue),
             profitabilityScore |-> ProfitabilityScore(input.roe),
             healthScore |-> HealthScore(input.debtToEbitda),
             dividendScore |-> DividendScore(input.dividendYield),
             valuationScore |-> PlScore(input.pl) + EvEbitdaScore(input.evEbitda)]
    IN [total |-> ScoreTotal(breakdown), breakdown |-> breakdown]

ScoreInputs ==
    [price : -1..MaxPrice,
     grahamValue : -1..MaxGraham,
     roe : -1..MaxRoe,
     debtToEbitda : -1..MaxDebt,
     dividendYield : -1..MaxDividendYield,
     pl : -1..MaxPl,
     evEbitda : -1..MaxEvEbitda]

----------------------------------------------------------------------------
(* The scoring engine applied to one input *)

ScoreIdle ==
    /\ riskStocks = <<>> /\ riskOut = NoResult
    /\ stocks = <<>> /\ isRefreshing = FALSE /\ error = Null
    /\ inflight = EmptyBag /\ lastOp = [op |-> "init"]
    /\ ValuationIdle

InitScore ==
    /\ scoreIn \in ScoreInputs
    /\ scoreOut = NoResult
    /\ ScoreIdle

Score ==
    /\ scoreOut = NoResult
    /\ scoreOut' = calculateStockScore(scoreIn)
    /\ UNCHANGED <<scoreIn, riskVars, hookVars, valuationVars>>

NextScore == Score

SpecScore == InitScore /\ [][NextScore]_vars

Scored == scoreOut # NoResult

BreakdownSum(b) ==
    b.priceScore + b.profitabilityScore + b.healthScore + b.dividendScore
        + b.valuationScore

\* C1: for every input (zero and negative values included) the total returned
\* by calculateStockScore is the sum of the five breakdown fields and lies in
\* 0..100.
C1_TotalIsSumInRange ==
    Scored =>
        /\ scoreOut.total = BreakdownSum(scoreOut.breakdown)
        /\ scoreOut.total >= 0
        /\ scoreOut.total <= 100

C1_Witness ==
    /\ Scored
    /\ scoreIn.debtToEbitda < 0 /\ scoreIn.pl = 0 /\ scoreIn.roe < 0
    /\ scoreIn.price < scoreIn.grahamValue
    /\ scoreOut.total = BreakdownSum(scoreOut.breakdown)
    /\ scoreOut.total > 0

\* The P/E band as the rubric states it: (0,10] -> 8, (10,20] -> 5,
\* (20,30] -> 2, every other value (pl <= 0 included) -> 0.
RubricPlBand(pl) ==
    IF pl > 0 /\ pl <= 1 THEN 8
    ELSE IF pl > 1 /\ pl <= 2 THEN 5
    ELSE IF pl > 2 /\ pl <= 3 THEN 2
    ELSE 0

\* The EV/EBITDA band as the rubric states it: (0,6) -> 7, [6,12) -> 4,
\* [12,20) -> 1, every other value (evEbitda <= 0 included) -> 0.
RubricEvEbitdaBand(evEbitda) ==
    IF evEbitda > 0 /\ evEbitda < 3 THEN 7
    ELSE IF evEbitda >= 3 /\ evEbitda < 6 THEN 4
    ELSE IF evEbitda >= 6 /\ evEbitda < 10 THEN 1
    ELSE 0

\* C2: the valuation sub-score is the sum of the P/E band and the EV/EBITDA
\* band of the rubric, where a value <= 0 ("not available") scores 0.
C2_ValuationBands ==
    Scored =>
        scoreOut.breakdown.valuationScore
            = RubricPlBand(scoreIn.pl) + RubricEvEbitdaBand(scoreIn.evEbitda)

\* The Debt/EBITDA band as the rubric states it: [0,1.5) -> 20,
\* [1.5,2.0) -> 15, [2.0,3.0] -> 10, every other value -> 0.
RubricDebtBand(d) ==
    IF d >= 0 /\ d < 3 THEN 20
    ELSE IF d >= 3 /\ d < 4 THEN 15
    ELSE IF d >= 4 /\ d <= 6 THEN 10
    ELSE 0

\* C3: healthScore is 20 on [0,1.5), 15 on [1.5,2.0), 10 on [2.0,3.0] and 0
\* for every other debtToEbitda, negative values included.
C3_HealthBands ==
    Scored => scoreOut.breakdown.healthScore = RubricDebtBand(scoreIn.debtToEbitda)

AllTopBands ==
    /\ scoreIn.grahamValue > 0 /\ scoreIn.price < scoreIn.grahamValue
    /\ scoreIn.roe > 4
    /\ scoreIn.debtToEbitda >= 0 /\ scoreIn.debtToEbitda < 3
    /\ scoreIn.dividendYield > 3
    /\ scoreIn.pl > 0 /\ scoreIn.pl <= 1
    /\ scoreIn.evEbitda > 0 /\ scoreIn.evEbitda < 3

----------------------------------------------------------------------------
(* Exact arithmetic: rationals <<n, d>> with d > 0 in lowest terms, and     *)
(* numbers coef * sqrt(rad) for what the code computes through Math.sqrt    *)

RECURSIVE GCD(_, _)
GCD(a, b) == IF b = 0 THEN a ELSE GCD(b, a % b)

Abs(x) == IF x < 0 THEN -x ELSE x

Rat(n, d) ==
    LET sn == IF d < 0 THEN -n ELSE n
        sd == Abs(d)
        g == GCD(Abs(sn), sd)
    IN <<sn \div g, sd \div g>>

RatInt(n) == <<n, 1>>
RatAdd(a, b) == Rat(a[1] * b[2] + b[1] * a[2], a[2] * b[2])
RatSub(a, b) == Rat(a[1] * b[2] - b[1] * a[2], a[2] * b[2])
RatMul(a, b) == Rat(a[1] * b[1], a[2] * b[2])
RatDiv(a, b) == Rat(a[1] * b[2], a[2] * b[1])
RatLess(a, b) == a[1] * b[2] < b[1] * a[2]
RatIsZero(a) == a[1] = 0

RECURSIVE RatSum(_)
RatSum(seq) ==
    IF seq = <<>> THEN RatInt(0) ELSE RatAdd(Head(seq), RatSum(Tail(seq)))

Surd(coef, rad) ==
    IF RatIsZero(coef) \/ RatIsZero(rad)
    THEN [coef |-> RatInt(0), rad |-> RatInt(0)]
    ELSE [coef |-> coef, rad |-> rad]

Sqrt(rad) == Surd(RatInt(1), rad)
SurdZero == Surd(RatInt(0), RatInt(0))
SurdIsZero(a) == RatIsZero(a.coef)
SurdMul(a, b) == Surd(RatMul(a.coef, b.coef), RatMul(a.rad, b.rad))
SurdDiv(a, b) == Surd(RatDiv(a.coef, b.coef), RatDiv(a.rad, b.rad))
SurdScale(r, a) == Surd(RatMul(r, a.coef), a.rad)
\* a < b for a, b >= 0
SurdLess(a, b) ==
    IF a.rad = b.rad
    THEN ~SurdIsZero(b) /\ RatLess(a.coef, b.coef)
    ELSE RatLess(RatMul(RatMul(a.coef, a.coef), a.rad),
                 RatMul(RatMul(b.coef, b.coef), b.rad))

----------------------------------------------------------------------------
(* components/stocks/RiskMetrics.tsx *)

NaN == "NaN"
NoTicker == "N/A"

RiskTickers == <<"A", "B", "C", "D">>

RECURSIVE MutChanges(_)
MutChanges(list) ==
    IF list = <<>> THEN <<>>
    ELSE <<Rat(Head(list).changePercent, 100)>> \o MutChanges(Tail(list))

\* stocks.filter((s) => s.changePercent !== 0).map((s) => s.changePercent / 100)
RECURSIVE Changes(_)
Changes(list) ==
    IF list = <<>> THEN <<>>
    ELSE IF Head(list).changePercent # 0
         THEN <<Rat(Head(list).changePercent, 100)>> \o Changes(Tail(list))
         ELSE Changes(Tail(list))

RECURSIVE SquaredDeviations(_, _)
SquaredDeviations(changes, mean) ==
    IF changes = <<>> THEN <<>>
    ELSE LET dev == RatSub(Head(changes), mean)
         IN <<RatMul(dev, dev)>> \o SquaredDeviations(Tail(changes), mean)

calculatePortfolioVolatility(list) ==
    IF Len(list) = 0 THEN SurdZero
    ELSE LET changes == Changes(list)
         IN IF Len(changes) = 0 THEN SurdZero
            ELSE LET mean == RatDiv(RatSum(changes), RatInt(Len(changes)))
                     variance == RatDiv(RatSum(SquaredDeviations(changes, mean)),
                                        RatInt(Len(changes)))
                     dailyVol == Sqrt(variance)
                 IN SurdMul(dailyVol, Sqrt(RatInt(252)))

MutPositionUnits(s) ==
    IF s.quantity > QtyScale THEN Rat(s.quantity, QtyScale) ELSE RatInt(1)

\* s.quantity > 0 ? s.quantity : 1
PositionUnits(s) ==
    IF s.quantity > 0 THEN Rat(s.quantity, QtyScale) ELSE RatInt(1)

RECURSIVE PortfolioValue(_)
PortfolioValue(list) ==
    IF list = <<>> THEN RatInt(0)
    ELSE RatAdd(RatMul(RatInt(Head(list).price), PositionUnits(Head(list))),
                PortfolioValue(Tail(list)))

\* confidence levels and z-scores in thousandths
Confidences == {900, 950, 990, 975, 500}

MutZScore(confidenceLevel) ==
    IF confidenceLevel = 900 THEN Rat(1282, 1000)
    ELSE IF confidenceLevel = 950 THEN Rat(1645, 1000)
    ELSE IF confidenceLevel = 990 THEN Rat(1645, 1000)
    ELSE Rat(1645, 1000)

MutZScoreFallback(confidenceLevel) ==
    IF confidenceLevel = 900 THEN Rat(1282, 1000)
    ELSE IF confidenceLevel = 950 THEN Rat(1645, 1000)
    ELSE IF confidenceLevel = 990 THEN Rat(2326, 1000)
    ELSE Rat(2326, 1000)

ZScore(confidenceLevel) ==
    IF confidenceLevel = 900 THEN Rat(1282, 1000)
    ELSE IF confidenceLevel = 950 THEN Rat(1645, 1000)
    ELSE IF confidenceLevel = 990 THEN Rat(2326, 1000)
    ELSE Rat(1645, 1000)

calculateVaR(list, confidenceLevel) ==
    LET portfolioValue == PortfolioValue(list)
    IN IF RatIsZero(portfolioValue) \/ Len(list) = 0
       THEN [varPercent |-> SurdZero, varAbsolute |-> SurdZero,
             portfolioValue |-> RatInt(0)]
       ELSE LET volatility == calculatePortfolioVolatility(list)
                z == ZScore(confidenceLevel)
                varPercent == SurdDiv(SurdScale(z, volatility), Sqrt(RatInt(252)))
            IN [varPercent |-> varPercent,
                varAbsolute |-> SurdScale(portfolioValue, varPercent),
                portfolioValue |-> portfolioValue]

\* a quotient num / den whose divisor is a square root; 0 is SharpeZero
SharpeZero == [num |-> RatInt(0), den |-> Sqrt(RatInt(1))]

MutCalculateSharpeRatio(list) ==
    IF Len(list) = 0 THEN SharpeZero
    ELSE LET changes == Changes(list)
         IN IF Len(changes) = 0 THEN SharpeZero
            ELSE LET meanReturn == RatDiv(RatSum(changes), RatInt(Len(changes)))
                     riskFreeRate == RatDiv(Rat(1375, 10000), RatInt(252))
                     volatility == calculatePortfolioVolatility(list)
                 IN [num |-> RatMul(RatSub(meanReturn, riskFreeRate), RatInt(252)),
                     den |-> volatility]

calculateSharpeRatio(list) ==
    IF Len(list) = 0 THEN SharpeZero
    ELSE LET changes == Changes(list)
         IN IF Len(changes) = 0 THEN SharpeZero
            ELSE LET meanReturn == RatDiv(RatSum(changes), RatInt(Len(changes)))
                     riskFreeRate == RatDiv(Rat(1375, 10000), RatInt(252))
                     volatility == calculatePortfolioVolatility(list)
                 IN IF SurdIsZero(volatility) THEN SharpeZero
                    ELSE [num |-> RatMul(RatSub(meanReturn, riskFreeRate), RatInt(252)),
                          den |-> volatility]

RECURSIVE MutWithPosition(_)
MutWithPosition(list) ==
    IF list = <<>> THEN <<>>
    ELSE IF Head(list).quantity # 0
         THEN <<Head(list)>> \o MutWithPosition(Tail(list))
         ELSE MutWithPosition(Tail(list))

\* stocks.filter((s) => s.quantity > 0)
RECURSIVE WithPosition(_)
WithPosition(list) ==
    IF list = <<>> THEN <<>>
    ELSE IF Head(list).quantity > 0
         THEN <<Head(list)>> \o WithPosition(Tail(list))
         ELSE WithPosition(Tail(list))

\* s.price * s.quantity
MarketValue(s) == RatMul(RatInt(s.price), Rat(s.quantity, QtyScale))

RECURSIVE MutConcentrationTotalValue(_)
MutConcentrationTotalValue(withPosition) ==
    IF withPosition = <<>> THEN RatInt(0)
    ELSE RatAdd(RatInt(Head(withPosition).price),
                MutConcentrationTotalValue(Tail(withPosition)))

RECURSIVE ConcentrationTotalValue(_)
ConcentrationTotalValue(withPosition) ==
    IF withPosition = <<>> THEN RatInt(0)
    ELSE RatAdd(MarketValue(Head(withPosition)),
                ConcentrationTotalValue(Tail(withPosition)))

RECURSIVE MutConcentrationLoop(_, _, _)
MutConcentrationLoop(rest, totalValue, acc) ==
    IF rest = <<>> THEN acc
    ELSE LET s == Head(rest)
             value == MarketValue(s)
             weight == RatDiv(value, totalValue)
             larger == ~RatLess(value, acc.maxValue)
         IN MutConcentrationLoop(Tail(rest), totalValue,
                [maxTicker |-> IF larger THEN s.ticker ELSE acc.maxTicker,
                 maxValue |-> IF larger THEN value ELSE acc.maxValue,
                 herfindahl |-> RatAdd(acc.herfindahl, RatMul(weight, weight))])

\* the for loop of calculateConcentration over the rest of withPosition
RECURSIVE ConcentrationLoop(_, _, _)
ConcentrationLoop(rest, totalValue, acc) ==
    IF rest = <<>> THEN acc
    ELSE LET s == Head(rest)
             value == MarketValue(s)
             weight == RatDiv(value, totalValue)
             larger == RatLess(acc.maxValue, value)
         IN ConcentrationLoop(Tail(rest), totalValue,
                [maxTicker |-> IF larger THEN s.ticker ELSE acc.maxTicker,
                 maxValue |-> IF larger THEN value ELSE acc.maxValue,
                 herfindahl |-> RatAdd(acc.herfindahl, RatMul(weight, weight))])

ConcentrationSentinel ==
    [topHolding |-> NoTicker, topPercent |-> RatInt(0), herfindahl |-> RatInt(0)]

calculateConcentration(list) ==
    LET withPosition == WithPosition(list)
    IN IF Len(withPosition) = 0 THEN ConcentrationSentinel
       ELSE LET totalValue == ConcentrationTotalValue(withPosition)
            IN IF RatIsZero(totalValue) THEN ConcentrationSentinel
               ELSE LET end == ConcentrationLoop(withPosition, totalValue,
                                   [maxTicker |-> withPosition[1].ticker,
                                    maxValue |-> RatInt(0),
                                    herfindahl |-> RatInt(0)])
                    IN [topHolding |-> end.maxTicker,
                        topPercent |-> RatDiv(end.maxValue, totalValue),
                        herfindahl |-> end.herfindahl]

\* s.quantity > 0 ? s.quantity * s.price : s.price
BetaValue(s) ==
    IF s.quantity > 0 THEN MarketValue(s) ELSE RatInt(s.price)

RECURSIVE BetaTotalValue(_)
BetaTotalValue(list) ==
    IF list = <<>> THEN RatInt(0)
    ELSE RatAdd(BetaValue(Head(list)), BetaTotalValue(Tail(list)))

RECURSIVE AbsChangeSum(_)
AbsChangeSum(list) ==
    IF list = <<>> THEN 0
    ELSE Abs(Head(list).changePercent) + AbsChangeSum(Tail(list))

\* the reduce of avgBeta over the rest of stocks; total is the inner reduce
RECURSIVE WeightedAbsChange(_, _)
WeightedAbsChange(rest, total) ==
    IF rest = <<>> THEN RatInt(0)
    ELSE LET weight == RatDiv(BetaValue(Head(rest)), total)
         IN RatAdd(RatMul(RatInt(Abs(Head(rest).changePercent)), weight),
                   WeightedAbsChange(Tail(rest), total))

\* stocks.reduce(... Math.abs(s.changePercent), 0) / stocks.length || 1
BetaDivisor(list) ==
    IF AbsChangeSum(list) = 0 THEN RatInt(1)
    ELSE Rat(AbsChangeSum(list), Len(list))

RatClamp(x, lo, hi) ==
    IF RatLess(x, lo) THEN lo ELSE IF RatLess(hi, x) THEN hi ELSE x

\* avgBeta: a weight 0/0 is NaN, and NaN stays NaN through the sum, the
\* division and Math.min(Math.max(avgBeta, 0), 3)
Beta(list) ==
    IF Len(list) = 0 THEN RatInt(1)
    ELSE IF RatIsZero(BetaTotalValue(list)) THEN NaN
    ELSE RatClamp(RatDiv(WeightedAbsChange(list, BetaTotalValue(list)),
                         BetaDivisor(list)),
                  RatInt(0), RatInt(3))

(* Every division the metrics perform on the path the code takes, with     *)
(* whether its divisor is 0                                                *)
Division(at, divisor) == [at |-> at, zero |-> RatIsZero(divisor)]

VolatilityDivisions(list) ==
    IF Len(list) = 0 \/ Len(Changes(list)) = 0 THEN {}
    ELSE {Division("volatility: changePercent / 100", RatInt(100)),
          Division("volatility: sum / changes.length", RatInt(Len(Changes(list))))}

VaRDivisions(list) ==
    IF RatIsZero(PortfolioValue(list)) \/ Len(list) = 0 THEN {}
    ELSE VolatilityDivisions(list)
         \cup {Division("VaR: z * volatility / Math.sqrt(252)", RatInt(252))}

SharpeDivisions(list) ==
    IF Len(list) = 0 \/ Len(Changes(list)) = 0 THEN {}
    ELSE VolatilityDivisions(list)
         \cup {Division("sharpe: changePercent / 100", RatInt(100)),
               Division("sharpe: sum / changes.length", RatInt(Len(Changes(list)))),
               Division("sharpe: 0.1375 / 252", RatInt(252))}
         \cup (IF SurdIsZero(calculatePortfolioVolatility(list)) THEN {}
               ELSE {Division("sharpe: / volatility",
                              calculatePortfolioVolatility(list).coef)})

ConcentrationDivisions(list) ==
    IF Len(WithPosition(list)) = 0
          \/ RatIsZero(ConcentrationTotalValue(WithPosition(list)))
    THEN {}
    ELSE {Division("concentration: value / totalValue",
                   ConcentrationTotalValue(WithPosition(list)))}

BetaDivisions(list) ==
    IF Len(list) = 0 THEN {}
    ELSE {Division("beta: value / total value", BetaTotalValue(list)),
          Division("beta: sum / stocks.length", RatInt(Len(list))),
          Division("beta: / (mean || 1)", BetaDivisor(list))}

\* The metrics memo of the RiskMetrics component.  var holds calculateVaR at
\* each level of Confidences; the component reads var[950] and var[990].
Metrics(list) ==
    [volatility |-> calculatePortfolioVolatility(list),
     var |-> [c \in Confidences |-> calculateVaR(list, c)],
     sharpe |-> calculateSharpeRatio(list),
     concentration |-> calculateConcentration(list),
     beta |-> Beta(list),
     divisions |-> VolatilityDivisions(list) \cup VaRDivisions(list)
                     \cup SharpeDivisions(list) \cup ConcentrationDivisions(list)
                     \cup BetaDivisions(list)]

----------------------------------------------------------------------------
(* The risk engine applied to one holdings list *)

RiskHoldingFields ==
    [price : 0..MaxRiskPrice,
     quantity : -1..MaxQty,
     changePercent : -1..MaxChange]

RiskHolding(i, f) ==
    [ticker |-> RiskTickers[i], price |-> f.price, quantity |-> f.quantity,
     changePercent |-> f.changePercent]

RiskLists(maxHoldings) ==
    UNION {{[i \in 1..n |-> RiskHolding(i, f[i])] : f \in [1..n -> RiskHoldingFields]}
           : n \in 0..maxHoldings}

RiskIdle ==
    /\ scoreIn = [none |-> TRUE] /\ scoreOut = NoResult
    /\ stocks = <<>> /\ isRefreshing = FALSE /\ error = Null
    /\ inflight = EmptyBag /\ lastOp = [op |-> "init"]
    /\ ValuationIdle

InitRisk ==
    /\ riskStocks \in RiskLists(MaxHoldings)
    /\ riskOut = NoResult
    /\ RiskIdle

RiskMetrics ==
    /\ riskOut = NoResult
    /\ riskOut' = Metrics(riskStocks)
    /\ UNCHANGED <<riskStocks, scoreVars, hookVars, valuationVars>>

NextRisk == RiskMetrics

SpecRisk == InitRisk /\ [][NextRisk]_vars

RiskDone == riskOut # NoResult

VolatilityPositive == ~SurdIsZero(riskOut.volatility)

VaRIncreasing ==
    /\ SurdLess(riskOut.var[950].varPercent, riskOut.var[990].varPercent)
    /\ SurdLess(riskOut.var[900].varPercent, riskOut.var[950].varPercent)

SingleHeld == Len(riskStocks) = 1 /\ riskStocks[1].quantity > 0

FullyConcentrated ==
    /\ riskOut.concentration.herfindahl = RatInt(1)
    /\ riskOut.concentration.topPercent = RatInt(1)
    /\ riskOut.concentration.topHolding = riskStocks[1].ticker

\* C5 as stated: a list of exactly one holding with quantity > 0 has
\* herfindahl = 1, topPercent = 1 and topHolding = that holding's ticker.
C5_SingleHoldingOriginal ==
    (RiskDone /\ SingleHeld) => FullyConcentrated

\* C5 amended: a list of exactly one holding with quantity > 0 and price > 0
\* has herfindahl = 1, topPercent = 1 and topHolding = that holding's ticker.
C5_SingleHolding ==
    (RiskDone /\ SingleHeld /\ riskStocks[1].price > 0) => FullyConcentrated

C5_Witness ==
    /\ RiskDone /\ SingleHeld
    /\ riskStocks[1].price > 0
    /\ riskStocks[1].quantity # QtyScale
    /\ FullyConcentrated

\* sum over the holdings, last to first, of price * max(quantity, 1)
RECURSIVE SumPriceTimesMaxQty(_)
SumPriceTimesMaxQty(list) ==
    IF Len(list) = 0 THEN RatInt(0)
    ELSE LET s == list[Len(list)]
             units == IF s.quantity >= QtyScale THEN s.quantity ELSE QtyScale
         IN RatAdd(SumPriceTimesMaxQty(SubSeq(list, 1, Len(list) - 1)),
                   Rat(s.price * units, QtyScale))

\* sum over the holdings, last to first, of price * quantity for a holding
\* with quantity > 0 and of price for a holding with quantity <= 0
RECURSIVE SumPriceTimesHeldQty(_)
SumPriceTimesHeldQty(list) ==
    IF Len(list) = 0 THEN RatInt(0)
    ELSE LET s == list[Len(list)]
             units == IF s.quantity > 0 THEN s.quantity ELSE QtyScale
         IN RatAdd(SumPriceTimesHeldQty(SubSeq(list, 1, Len(list) - 1)),
                   Rat(s.price * units, QtyScale))

\* C6 as stated: the portfolioValue returned by valueAtRisk is the sum of
\* price * max(quantity, 1), fractional quantities included.
C6_PortfolioValueOriginal ==
    RiskDone =>
        \A c \in Confidences :
            riskOut.var[c].portfolioValue = SumPriceTimesMaxQty(riskStocks)

\* C6 amended: the portfolioValue returned by valueAtRisk is the sum of
\* price * quantity over the holdings with quantity > 0 plus the sum of price
\* over the holdings with quantity <= 0.
C6_PortfolioValue ==
    RiskDone =>
        \A c \in Confidences :
            riskOut.var[c].portfolioValue = SumPriceTimesHeldQty(riskStocks)

C6_Witness ==
    /\ RiskDone
    /\ \E i \in 1..Len(riskStocks) :
          /\ riskStocks[i].quantity > 0
          /\ riskStocks[i].quantity < QtyScale
          /\ riskStocks[i].price > 0
    /\ \E i \in 1..Len(riskStocks) :
          riskStocks[i].quantity = 0 /\ riskStocks[i].price > 0
    /\ riskOut.var[950].portfolioValue = SumPriceTimesHeldQty(riskStocks)

\* C7: for every holdings list (the empty list and lists of all-zero prices,
\* quantities or changes included) every division of the risk computation has
\* a non-zero divisor, every metric is a defined number, and the empty list
\* gives the sentinels.
C7_RiskTotal ==
    RiskDone =>
        /\ \A d \in riskOut.divisions : ~d.zero
        /\ riskOut.beta # NaN
        /\ (Len(riskStocks) = 0 =>
               /\ SurdIsZero(riskOut.volatility)
               /\ \A c \in Confidences :
                     /\ SurdIsZero(riskOut.var[c].varPercent)
                     /\ SurdIsZero(riskOut.var[c].varAbsolute)
                     /\ RatIsZero(riskOut.var[c].portfolioValue)
               /\ riskOut.sharpe = SharpeZero
               /\ riskOut.concentration = ConcentrationSentinel)

HasChange(s) == s.changePercent # 0
Moving == SelectSeq(riskStocks, HasChange)

\* C18: portfolioVolatility is that of the holdings whose changePercent is
\* non-zero alone (holdings with changePercent = 0 change nothing), it is 0
\* when no holding has a non-zero changePercent, and it is never negative.
C18_VolatilitySample ==
    RiskDone =>
        /\ riskOut.volatility = calculatePortfolioVolatility(Moving)
        /\ (Moving = <<>>) => SurdIsZero(riskOut.volatility)
        /\ ~RatLess(riskOut.volatility.coef, RatInt(0))
        /\ ~RatLess(riskOut.volatility.rad, RatInt(0))

C18_Witness ==
    /\ RiskDone
    /\ Len(riskStocks) = 3 /\ Len(Moving) = 2
    /\ riskStocks[2].changePercent = 0
    /\ ~SurdIsZero(riskOut.volatility)
    /\ riskOut.volatility = calculatePortfolioVolatility(Moving)

\* the sum of changePercent over the holdings of a list
RECURSIVE ChangePercentSum(_)
ChangePercentSum(list) ==
    IF list = <<>> THEN 0
    ELSE Head(list).changePercent + ChangePercentSum(Tail(list))

\* (mean - 0.1375 / 252) * 252 for the mean of changePercent / 100 over Moving
ExcessReturn ==
    RatMul(RatSub(Rat(ChangePercentSum(Moving), 100 * Len(Moving)),
                  Rat(1375, 2520000)),
           RatInt(252))

\* C19: sharpeRatio is 0 whenever portfolioVolatility of the same holdings is
\* 0, and otherwise (mean - 0.1375/252) * 252 / volatility for the mean of the
\* non-zero changePercent / 100.
C19_Sharpe ==
    RiskDone =>
        IF SurdIsZero(riskOut.volatility)
        THEN riskOut.sharpe = SharpeZero
        ELSE /\ riskOut.sharpe.num = ExcessReturn
             /\ riskOut.sharpe.den = riskOut.volatility

C19_Witness ==
    /\ RiskDone
    /\ Len(riskStocks) = 2
    /\ riskStocks[1].changePercent = 1 /\ riskStocks[2].changePercent = 1
    /\ SurdIsZero(riskOut.volatility)
    /\ riskOut.sharpe = SharpeZero

IsHeld(s) == s.quantity > 0
Held == SelectSeq(riskStocks, IsHeld)

\* the total market value, in 1/QtyScale currency units, of the held holdings
RECURSIVE HeldValue(_)
HeldValue(list) ==
    IF list = <<>> THEN 0
    ELSE (IF Head(list).quantity > 0 THEN Head(list).price * Head(list).quantity
          ELSE 0) + HeldValue(Tail(list))

\* C20: concentration is that of the holdings with quantity > 0 alone, and it
\* is the sentinel ("N/A", 0, 0) exactly when no holding has quantity > 0 or
\* the total market value of those holdings is 0.
C20_ConcentrationHeld ==
    RiskDone =>
        /\ riskOut.concentration = calculateConcentration(Held)
        /\ (riskOut.concentration = ConcentrationSentinel)
              <=> (Held = <<>> \/ HeldValue(riskStocks) = 0)

C20_Witness ==
    /\ RiskDone
    /\ Len(riskStocks) = 2
    /\ riskStocks[1].quantity < 0 /\ riskStocks[1].price > 0
    /\ riskStocks[2].quantity > 0 /\ riskStocks[2].price > 0
    /\ riskOut.concentration.topHolding = riskStocks[2].ticker
    /\ riskOut.concentration.herfindahl = RatInt(1)

\* C21: for every confidence level other than 0.90, 0.95 and 0.99,
\* calculateVaR returns exactly what it returns for 0.95.
C21_VaRFallback ==
    RiskDone =>
        \A c \in Confidences \ {900, 950, 990} : riskOut.var[c] = riskOut.var[950]

C21_Witness ==
    /\ RiskDone
    /\ ~SurdIsZero(riskOut.var[975].varPercent)
    /\ riskOut.var[975] = riskOut.var[950]
    /\ riskOut.var[500] = riskOut.var[950]
    /\ riskOut.var[975] # riskOut.var[990]

\* the weights of the holdings concentration is computed over
Weights ==
    [i \in 1..Len(Held) |->
        RatDiv(MarketValue(Held[i]), ConcentrationTotalValue(Held))]

RatAtMost(a, b) == ~RatLess(b, a)

ConcentrationComputed ==
    RiskDone /\ riskOut.concentration # ConcentrationSentinel

\* the position topHolding names: of maximum market value, earliest on ties
IsEarliestLargest(i) ==
    /\ \A j \in 1..Len(Held) : RatAtMost(MarketValue(Held[j]), MarketValue(Held[i]))
    /\ \A j \in 1..(i - 1) : RatLess(MarketValue(Held[j]), MarketValue(Held[i]))

----------------------------------------------------------------------------
(* lib/api: what the quote service answers *)

\* An optional field of a quote is <<>> when absent and <<value>> when present.
Absent == <<>>
\* x ?? d
OrElse(x, d) == IF x = Absent THEN d ELSE x[1]

\* ticker.toUpperCase()
ToUpperCase(t) == IF t = "a" THEN "A" ELSE IF t = "b" THEN "B" ELSE t

InputTickers == {"A", "a", "B"}
QuoteVersions == 1..MaxQuoteVersion

\* The quotes the service can answer for a symbol: version 1 has every module,
\* version 2 has the price only, later versions a loss-making company.
MarketQuote(symbol, v) ==
    IF v = 1 THEN
        [symbol |-> symbol, regularMarketPrice |-> 10,
         regularMarketChange |-> <<1>>, regularMarketChangePercent |-> <<1>>,
         earningsPerShare |-> <<1>>, bookValue |-> <<10>>,
         priceEarnings |-> <<1>>, dividendYield |-> <<4>>,
         enterpriseValue |-> <<40>>,
         financialData |-> <<[returnOnEquity |-> <<5>>, totalDebt |-> <<10>>,
                              ebitda |-> <<10>>, profitMargins |-> <<1>>,
                              totalRevenue |-> <<20>>]>>]
    ELSE IF v = 2 THEN
        [symbol |-> symbol, regularMarketPrice |-> 20,
         regularMarketChange |-> Absent, regularMarketChangePercent |-> Absent,
         earningsPerShare |-> Absent, bookValue |-> Absent,
         priceEarnings |-> Absent, dividendYield |-> Absent,
         enterpriseValue |-> Absent, financialData |-> Absent]
    ELSE
        [symbol |-> symbol, regularMarketPrice |-> 10 * v,
         regularMarketChange |-> <<-2>>, regularMarketChangePercent |-> <<-1>>,
         earningsPerShare |-> <<-1>>, bookValue |-> <<10>>,
         priceEarnings |-> <<-1>>, dividendYield |-> <<0>>,
         enterpriseValue |-> <<120>>,
         financialData |-> <<[returnOnEquity |-> <<-1>>, totalDebt |-> <<40>>,
                              ebitda |-> <<10>>, profitMargins |-> <<-1>>,
                              totalRevenue |-> <<20>>]>>]

\* fetchStockQuote(ticker): results[0] of /quote/{ticker.toUpperCase()}
StockQuoteAnswers(ticker) ==
    {MarketQuote(ToUpperCase(ticker), v) : v \in QuoteVersions}

\* fetchMultipleQuotes(tickers): one quote for each symbol of any subset of
\* the requested ones
MultipleQuotesAnswers(tickers) ==
    LET asked == {ToUpperCase(tickers[i]) : i \in 1..Len(tickers)}
    IN UNION {{{MarketQuote(sym, f[sym]) : sym \in answered}
                  : f \in [answered -> QuoteVersions]}
              : answered \in SUBSET asked}

----------------------------------------------------------------------------
(* lib/calculators: calculateGrahamValue *)

\* Math.sqrt on the integers: the largest r with r * r <= n
ISqrt(n) == CHOOSE r \in 0..n : r * r <= n /\ (r + 1) * (r + 1) > n

MutCalculateGrahamValue(lpa, vpa) ==
    Sqrt(Rat(45 * lpa * vpa, 2))

\* Math.sqrt(22.5 * lpa * vpa)
calculateGrahamValue(lpa, vpa) ==
    IF lpa <= 0 \/ vpa <= 0 THEN SurdZero
    ELSE Sqrt(Rat(45 * lpa * vpa, 2))

\* the value of a square root that is a whole number of currency units, as
\* are the Graham values of the quotes of MarketQuote
Whole(a) ==
    ISqrt((a.coef[1] * a.coef[1] * a.rad[1]) \div (a.coef[2] * a.coef[2] * a.rad[2]))

MutGetScoreLabel(score) ==
    IF score >= 80 THEN "Compra Forte"
    ELSE IF score >= 50 THEN "Observacao"
    ELSE "Risco Elevado"

\* the labels 'Compra Forte', 'Observação' and 'Risco Elevado'
getScoreLabel(score) ==
    IF score > 80 THEN "Compra Forte"
    ELSE IF score >= 50 THEN "Observacao"
    ELSE "Risco Elevado"

calculateMarginOfSafety(currentPrice, intrinsicValue) ==
    IF intrinsicValue <= 0 THEN RatInt(0)
    ELSE Rat(intrinsicValue - currentPrice, intrinsicValue)

MutGetValuationStatus(price, intrinsicValue) ==
    IF intrinsicValue <= 0 THEN "Justo"
    ELSE LET margin == Rat(intrinsicValue - price, intrinsicValue)
         IN IF ~RatLess(margin, Rat(1, 10)) THEN "Subvalorizada"
            ELSE IF RatLess(margin, Rat(-1, 10)) THEN "Sobrevalorizada"
            ELSE "Justo"

getValuationStatus(price, intrinsicValue) ==
    IF intrinsicValue <= 0 THEN "Justo"
    ELSE LET margin == Rat(intrinsicValue - price, intrinsicValue)
         IN IF RatLess(Rat(1, 10), margin) THEN "Subvalorizada"
            ELSE IF RatLess(margin, Rat(-1, 10)) THEN "Sobrevalorizada"
            ELSE "Justo"

MutGetRiskLevel(varPercent, volatility) ==
    LET riskScore == RatAdd(RatMul(varPercent, RatInt(100)),
                            RatMul(volatility, RatInt(50)))
    IN IF ~RatLess(riskScore, RatInt(8)) THEN "ALTO"
       ELSE IF RatLess(RatInt(4), riskScore) THEN "MODERADO"
       ELSE "BAIXO"

\* components/stocks/RiskMetrics.tsx: getRiskLevel (the label of its result)
getRiskLevel(varPercent, volatility) ==
    LET riskScore == RatAdd(RatMul(varPercent, RatInt(100)),
                            RatMul(volatility, RatInt(50)))
    IN IF RatLess(RatInt(8), riskScore) THEN "ALTO"
       ELSE IF RatLess(RatInt(4), riskScore) THEN "MODERADO"
       ELSE "BAIXO"

----------------------------------------------------------------------------
(* The valuation formulas applied to one argument list *)

FormulaInputs ==
    [fn : {"getScoreLabel"}, score : -1..MaxScore]
    \cup [fn : {"calculateGrahamValue"}, lpa : -1..MaxLpa, vpa : -1..MaxVpa]
    \cup [fn : {"getValuationStatus"}, price : -1..MaxCurrentPrice,
          intrinsicValue : -1..MaxIntrinsicValue]
    \cup [fn : {"getRiskLevel"}, varPercent : -1..MaxVarPercent,
          volatility : -1..MaxVolatility]

FormulaIdle ==
    /\ scoreIn = [none |-> TRUE] /\ scoreOut = NoResult
    /\ riskStocks = <<>> /\ riskOut = NoResult
    /\ stocks = <<>> /\ isRefreshing = FALSE /\ error = Null
    /\ inflight = EmptyBag /\ lastOp = [op |-> "init"]
    /\ dcfStock = [none |-> TRUE] /\ dcfOut = NoResult

InitFormulas ==
    /\ formulaIn \in FormulaInputs
    /\ formulaOut = NoResult
    /\ FormulaIdle

ScoreLabel ==
    /\ formulaOut = NoResult
    /\ formulaIn.fn = "getScoreLabel"
    /\ formulaOut' = [label |-> getScoreLabel(formulaIn.score)]
    /\ UNCHANGED <<formulaIn, dcfStock, dcfOut, scoreVars, riskVars, hookVars>>

GrahamValue ==
    /\ formulaOut = NoResult
    /\ formulaIn.fn = "calculateGrahamValue"
    /\ formulaOut' = [value |-> calculateGrahamValue(formulaIn.lpa, formulaIn.vpa)]
    /\ UNCHANGED <<formulaIn, dcfStock, dcfOut, scoreVars, riskVars, hookVars>>

\* the margin of safety and the valuation status of one price and value
ValuationStatus ==
    /\ formulaOut = NoResult
    /\ formulaIn.fn = "getValuationStatus"
    /\ formulaOut' =
          [margin |-> calculateMarginOfSafety(formulaIn.price,
                                              formulaIn.intrinsicValue),
           status |-> getValuationStatus(formulaIn.price,
                                         formulaIn.intrinsicValue)]
    /\ UNCHANGED <<formulaIn, dcfStock, dcfOut, scoreVars, riskVars, hookVars>>

\* varPercent is in units of 0.01 and volatility in units of 0.02
RiskLevel ==
    /\ formulaOut = NoResult
    /\ formulaIn.fn = "getRiskLevel"
    /\ formulaOut' = [label |-> getRiskLevel(Rat(formulaIn.varPercent, 100),
                                             Rat(formulaIn.volatility, 50))]
    /\ UNCHANGED <<formulaIn, dcfStock, dcfOut, scoreVars, riskVars, hookVars>>

NextFormulas == ScoreLabel \/ GrahamValue \/ ValuationStatus \/ RiskLevel

SpecFormulas == InitFormulas /\ [][NextFormulas]_vars

Returned(fn) == formulaIn.fn = fn /\ formulaOut # NoResult

SurdSquare(a) == RatMul(RatMul(a.coef, a.coef), a.rad)

\* C13: calculateGrahamValue(lpa, vpa) is exactly 0 when lpa <= 0 or vpa <= 0,
\* and otherwise the positive value whose square is 22.5 * lpa * vpa.
C13_GrahamValue ==
    Returned("calculateGrahamValue") =>
        LET lpa == formulaIn.lpa
            vpa == formulaIn.vpa
            v == formulaOut.value
        IN /\ (lpa <= 0 \/ vpa <= 0) => v = SurdZero
           /\ (lpa > 0 /\ vpa > 0) =>
                 /\ RatLess(RatInt(0), v.coef)
                 /\ SurdSquare(v) = Rat(45 * lpa * vpa, 2)

C13_Witness ==
    /\ Returned("calculateGrahamValue")
    /\ formulaIn.lpa = 1 /\ formulaIn.vpa = 3
    /\ SurdSquare(formulaOut.value) = Rat(135, 2)

\* C14: getValuationStatus agrees with calculateMarginOfSafety: 'Subvalorizada'
\* exactly when the margin is > 0.10, 'Sobrevalorizada' exactly when it is
\* < -0.10, 'Justo' otherwise; for intrinsicValue <= 0 the margin is 0 and the
\* status 'Justo'; for intrinsicValue > 0 the margin is
\* (intrinsicValue - price) / intrinsicValue.
C14_StatusAgreesWithMargin ==
    Returned("getValuationStatus") =>
        LET margin == formulaOut.margin
            status == formulaOut.status
        IN /\ (status = "Subvalorizada") <=> RatLess(Rat(1, 10), margin)
           /\ (status = "Sobrevalorizada") <=> RatLess(margin, Rat(-1, 10))
           /\ (status = "Justo") <=>
                 (~RatLess(Rat(1, 10), margin) /\ ~RatLess(margin, Rat(-1, 10)))
           /\ formulaIn.intrinsicValue <= 0 =>
                 (margin = RatInt(0) /\ status = "Justo")
           /\ formulaIn.intrinsicValue > 0 =>
                 RatMul(margin, RatInt(formulaIn.intrinsicValue))
                     = RatInt(formulaIn.intrinsicValue - formulaIn.price)

C14_Witness ==
    /\ Returned("getValuationStatus")
    /\ formulaIn.intrinsicValue = 10 /\ formulaIn.price = 11
    /\ formulaOut.margin = Rat(-1, 10)
    /\ formulaOut.status = "Justo"

\* varPercent * 100 + volatility * 50 of the arguments
Composite == formulaIn.varPercent + formulaIn.volatility

\* C22: getRiskLevel returns ALTO exactly when varPercent * 100 +
\* volatility * 50 is > 8, MODERADO exactly when it is > 4 and <= 8, and
\* BAIXO when it is <= 4.
C22_RiskLevelBands ==
    Returned("getRiskLevel") =>
        /\ (formulaOut.label = "ALTO") <=> (Composite > 8)
        /\ (formulaOut.label = "MODERADO") <=> (Composite > 4 /\ Composite <= 8)
        /\ (formulaOut.label = "BAIXO") <=> (Composite <= 4)

C22_Witness ==
    /\ Returned("getRiskLevel")
    /\ formulaIn.varPercent = 3 /\ formulaIn.volatility = 5
    /\ formulaOut.label = "MODERADO"

----------------------------------------------------------------------------
(* Exact arithmetic of any size, for the powers of calculateDCF.  A natural  *)
(* number is the sequence of its base-10000 digits, lowest first, without    *)
(* leading zeros; a number is a signed quotient of two naturals.             *)

RECURSIVE BigOf(_)
BigOf(n) == IF n = 0 THEN <<>> ELSE <<n % 10000>> \o BigOf(n \div 10000)

RECURSIVE BigAddCarry(_, _, _)
BigAddCarry(a, b, carry) ==
    IF a = <<>> /\ b = <<>> THEN BigOf(carry)
    ELSE LET x == IF a = <<>> THEN 0 ELSE Head(a)
             y == IF b = <<>> THEN 0 ELSE Head(b)
             t == x + y + carry
         IN <<t % 10000>> \o BigAddCarry(IF a = <<>> THEN <<>> ELSE Tail(a),
                                         IF b = <<>> THEN <<>> ELSE Tail(b),
                                         t \div 10000)

BigAdd(a, b) == BigAddCarry(a, b, 0)

RECURSIVE BigTimesDigit(_, _, _)
BigTimesDigit(a, k, carry) ==
    IF a = <<>> THEN BigOf(carry)
    ELSE LET t == Head(a) * k + carry
         IN <<t % 10000>> \o BigTimesDigit(Tail(a), k, t \div 10000)

RECURSIVE BigMul(_, _)
BigMul(a, b) ==
    IF a = <<>> \/ b = <<>> THEN <<>>
    ELSE LET rest == BigMul(a, Tail(b))
             shifted == IF rest = <<>> THEN <<>> ELSE <<0>> \o rest
         IN IF Head(b) = 0 THEN shifted
            ELSE BigAdd(BigTimesDigit(a, Head(b), 0), shifted)

RECURSIVE BigLess(_, _)
BigLess(a, b) ==
    IF Len(a) # Len(b) THEN Len(a) < Len(b)
    ELSE IF a = <<>> THEN FALSE
    ELSE LET n == Len(a)
         IN IF a[n] # b[n] THEN a[n] < b[n]
            ELSE BigLess(SubSeq(a, 1, n - 1), SubSeq(b, 1, n - 1))

RECURSIVE BigTrim(_)
BigTrim(a) ==
    IF a = <<>> THEN <<>>
    ELSE IF a[Len(a)] = 0 THEN BigTrim(SubSeq(a, 1, Len(a) - 1))
    ELSE a

RECURSIVE BigSubBorrow(_, _, _)
BigSubBorrow(a, b, borrow) ==
    IF a = <<>> THEN <<>>
    ELSE LET y == IF b = <<>> THEN 0 ELSE Head(b)
             t == Head(a) - y - borrow
         IN <<IF t < 0 THEN t + 10000 ELSE t>>
                \o BigSubBorrow(Tail(a), IF b = <<>> THEN <<>> ELSE Tail(b),
                                IF t < 0 THEN 1 ELSE 0)

\* a - b for a >= b
BigSub(a, b) == BigTrim(BigSubBorrow(a, b, 0))

NumZero == [neg |-> FALSE, num |-> <<>>, den |-> <<1>>]

\* quotient q and remainder r of a by a divisor k <= 10000
RECURSIVE BigDivRem(_, _)
BigDivRem(a, k) ==
    IF a = <<>> THEN [q |-> <<>>, r |-> 0]
    ELSE LET hi == BigDivRem(Tail(a), k)
             t == hi.r * 10000 + Head(a)
         IN [q |-> <<t \div k>> \o hi.q, r |-> t % k]

\* the prime factors 2, 3, 5, 7, 11, 13 and 23 of the divisors calculateDCF
\* meets (100, 115, 12 and the whole prices), the powers of 10 first
DivisorFactors == <<10000, 100, 10, 2, 5, 23, 3, 7, 11, 13>>

\* num and den with their common factors among factors removed
RECURSIVE Lowest(_, _, _)
Lowest(num, den, factors) ==
    IF factors = <<>> THEN [num |-> num, den |-> den]
    ELSE LET n == BigDivRem(num, Head(factors))
             d == BigDivRem(den, Head(factors))
         IN IF n.r = 0 /\ d.r = 0
            THEN Lowest(BigTrim(n.q), BigTrim(d.q), factors)
            ELSE Lowest(num, den, Tail(factors))

\* the quotient num / den
Num(neg, num, den) ==
    IF num = <<>> THEN NumZero
    ELSE LET l == Lowest(num, den, DivisorFactors)
         IN [neg |-> neg, num |-> l.num, den |-> l.den]

\* n / d for integers n and d > 0
NumOf(n, d) == Num(n < 0, BigOf(Abs(n)), BigOf(d))
NumNeg(a) == Num(~a.neg, a.num, a.den)
NumMul(a, b) == Num(a.neg # b.neg, BigMul(a.num, b.num), BigMul(a.den, b.den))
\* a / b for b # 0
NumDiv(a, b) == Num(a.neg # b.neg, BigMul(a.num, b.den), BigMul(a.den, b.num))
NumAdd(a, b) ==
    LET x == BigMul(a.num, b.den)
        y == BigMul(b.num, a.den)
        den == BigMul(a.den, b.den)
    IN IF a.neg = b.neg THEN Num(a.neg, BigAdd(x, y), den)
       ELSE IF BigLess(x, y) THEN Num(b.neg, BigSub(y, x), den)
       ELSE Num(a.neg, BigSub(x, y), den)
NumSub(a, b) == NumAdd(a, NumNeg(b))
NumIsZero(a) == a.num = <<>>
NumLess(a, b) == NumSub(a, b).neg
NumEq(a, b) == NumIsZero(NumSub(a, b))
\* Math.max and Math.min
NumMax(a, b) == IF NumLess(a, b) THEN b ELSE a
NumMin(a, b) == IF NumLess(b, a) THEN b ELSE a
\* Math.pow(a, k) for a whole k >= 0
RECURSIVE NumPow(_, _)
NumPow(a, k) == IF k = 0 THEN NumOf(1, 1) ELSE NumMul(a, NumPow(a, k - 1))

----------------------------------------------------------------------------
(* components/stocks/DCFValuation.tsx: calculateDCF.  The holding's lpa and  *)
(* price are whole currency units and its roe is in percent points.          *)

MutDCFGuard(stock) == stock.lpa <= 0

\* lpa <= 0 || price <= 0
DCFGuard(stock) == stock.lpa <= 0 \/ stock.price <= 0

DCFZero ==
    [intrinsicValue |-> NumZero, upside |-> NumZero, fcfProjections |-> <<>>,
     terminalValue |-> NumZero, wacc |-> NumOf(15, 100), growthRate |-> NumZero]

MutGrowthRate(roe) == NumMin(roe, NumOf(15, 100))

\* Math.min(Math.max(roe, 0.02), 0.15)
GrowthRate(roe) == NumMin(NumMax(roe, NumOf(2, 100)), NumOf(15, 100))

\* the projection loop: years more values after currentFCF
RECURSIVE Projection(_, _, _)
Projection(currentFCF, growthRate, years) ==
    IF years = 0 THEN <<>>
    ELSE LET next == NumMul(currentFCF, NumAdd(NumOf(1, 1), growthRate))
         IN <<next>> \o Projection(next, growthRate, years - 1)

\* the present-value loop over fcfProjections[0 .. years - 1]
RECURSIVE PresentValue(_, _, _)
PresentValue(fcfProjections, wacc, years) ==
    IF years = 0 THEN NumZero
    ELSE NumAdd(PresentValue(fcfProjections, wacc, years - 1),
                NumDiv(fcfProjections[years],
                       NumPow(NumAdd(NumOf(1, 1), wacc), years)))

MutUpside(intrinsicValue, price) ==
    IF NumLess(NumZero, price)
    THEN NumDiv(NumSub(intrinsicValue, price), intrinsicValue)
    ELSE NumZero

\* price > 0 ? (intrinsicValue - price) / price : 0
Upside(intrinsicValue, price) ==
    IF NumLess(NumZero, price)
    THEN NumDiv(NumSub(intrinsicValue, price), price)
    ELSE NumZero

calculateDCF(stock) ==
    LET lpa == NumOf(stock.lpa, 1)
        roe == NumOf(stock.roe, 100)
        price == NumOf(stock.price, 1)
    IN IF DCFGuard(stock) THEN DCFZero
       ELSE LET wacc == NumOf(15, 100)
                perpetualGrowth == NumOf(3, 100)
                growthRate == GrowthRate(roe)
                projectionYears == 5
                fcfProjections == Projection(lpa, growthRate, projectionYears)
                terminalFCF == NumMul(fcfProjections[projectionYears],
                                      NumAdd(NumOf(1, 1), perpetualGrowth))
                terminalValue == NumDiv(terminalFCF,
                                        NumSub(wacc, perpetualGrowth))
                pvFCF == PresentValue(fcfProjections, wacc, projectionYears)
                pvTerminal == NumDiv(terminalValue,
                                     NumPow(NumAdd(NumOf(1, 1), wacc),
                                            projectionYears))
                intrinsicValue == NumAdd(pvFCF, pvTerminal)
                upside == Upside(intrinsicValue, price)
            IN [intrinsicValue |-> NumMax(intrinsicValue, NumZero),
                upside |-> upside,
                fcfProjections |-> fcfProjections,
                terminalValue |-> terminalValue,
                wacc |-> wacc,
                growthRate |-> growthRate]

\* the divisions calculateDCF performs on the path the code takes
DCFDivisions(stock) ==
    IF DCFGuard(stock) THEN {}
    ELSE {"terminalFCF / (wacc - perpetualGrowth)",
          "fcfProjections[i] / Math.pow(1 + wacc, i + 1)",
          "terminalValue / Math.pow(1 + wacc, projectionYears)"}
         \cup (IF stock.price > 0 THEN {"(intrinsicValue - price) / price"}
               ELSE {})

----------------------------------------------------------------------------
(* calculateDCF applied to one holding *)

DCFStocks ==
    [lpa : -1..MaxDcfLpa, roe : -1..MaxRoePercent, price : -1..MaxDcfPrice]

DCFIdle ==
    /\ scoreIn = [none |-> TRUE] /\ scoreOut = NoResult
    /\ riskStocks = <<>> /\ riskOut = NoResult
    /\ stocks = <<>> /\ isRefreshing = FALSE /\ error = Null
    /\ inflight = EmptyBag /\ lastOp = [op |-> "init"]
    /\ formulaIn = [none |-> TRUE] /\ formulaOut = NoResult

InitDCF ==
    /\ dcfStock \in DCFStocks
    /\ dcfOut = NoResult
    /\ DCFIdle

DCF ==
    /\ dcfOut = NoResult
    /\ dcfOut' = [dcf |-> calculateDCF(dcfStock),
                  divisions |-> DCFDivisions(dcfStock)]
    /\ UNCHANGED <<dcfStock, formulaIn, formulaOut, scoreVars, riskVars,
                   hookVars>>

NextDCF == DCF

SpecDCF == InitDCF /\ [][NextDCF]_vars

DCFDone == dcfOut # NoResult

\* C15: whenever lpa <= 0 or price <= 0, calculateDCF returns intrinsicValue
\* 0, upside 0, an empty projection series and terminalValue 0, and does not
\* divide by price.
C15_DCFGuard ==
    (DCFDone /\ (dcfStock.lpa <= 0 \/ dcfStock.price <= 0)) =>
        /\ NumIsZero(dcfOut.dcf.intrinsicValue)
        /\ NumIsZero(dcfOut.dcf.upside)
        /\ dcfOut.dcf.fcfProjections = <<>>
        /\ NumIsZero(dcfOut.dcf.terminalValue)
        /\ "(intrinsicValue - price) / price" \notin dcfOut.divisions

C15_Witness ==
    /\ DCFDone
    /\ dcfStock.lpa > 0 /\ dcfStock.price = 0
    /\ NumIsZero(dcfOut.dcf.intrinsicValue)
    /\ dcfOut.dcf.fcfProjections = <<>>

\* roe clamped to [0.02, 0.15], for roe in percent points
ClampedRoe(roe) ==
    IF roe < 2 THEN NumOf(2, 100)
    ELSE IF roe > 15 THEN NumOf(15, 100)
    ELSE NumOf(roe, 100)

IsProjection(fcf, lpa, growthRate) ==
    /\ Len(fcf) = 5
    /\ NumEq(fcf[1], NumMul(lpa, NumAdd(NumOf(1, 1), growthRate)))
    /\ \A i \in 2..5 :
          /\ NumEq(fcf[i], NumMul(fcf[i - 1], NumAdd(NumOf(1, 1), growthRate)))
          /\ NumLess(fcf[i - 1], fcf[i])

DiscountedFlows(fcf, wacc) ==
    LET d == NumAdd(NumOf(1, 1), wacc)
        t(i) == NumDiv(fcf[i], NumPow(d, i))
    IN NumAdd(NumAdd(NumAdd(NumAdd(t(1), t(2)), t(3)), t(4)), t(5))

\* C17: for lpa > 0 and price > 0, the returned intrinsicValue is >= 0 and is
\* max(pvFCF + pvTerminal, 0) for the present values of the returned
\* projections and terminal value at the returned wacc, and the returned
\* upside is (returned intrinsicValue - price) / price.
C17_IntrinsicValueAndUpside ==
    (DCFDone /\ dcfStock.lpa > 0 /\ dcfStock.price > 0) =>
        LET r == dcfOut.dcf
            price == NumOf(dcfStock.price, 1)
            pvFCF == DiscountedFlows(r.fcfProjections, r.wacc)
            pvTerminal == NumDiv(r.terminalValue,
                                 NumPow(NumAdd(NumOf(1, 1), r.wacc), 5))
        IN /\ ~NumLess(r.intrinsicValue, NumZero)
           /\ NumEq(r.intrinsicValue,
                    NumMax(NumAdd(pvFCF, pvTerminal), NumZero))
           /\ NumEq(r.upside, NumDiv(NumSub(r.intrinsicValue, price), price))

C17_Witness ==
    /\ DCFDone
    /\ dcfStock.lpa = 1 /\ dcfStock.roe = 15 /\ dcfStock.price = 14
    /\ dcfOut.dcf.upside.neg
    /\ NumLess(NumOf(13, 1), dcfOut.dcf.intrinsicValue)

----------------------------------------------------------------------------
(* hooks/useStockQuotes.ts *)

\* field ?? 0 of quote.financialData?.field
FinancialData(quote, field) ==
    IF quote.financialData = Absent THEN 0
    ELSE OrElse(quote.financialData[1][field], 0)

\* lastUpdated, the wall-clock time of the mapping, is not part of the model.
\* debtToEbitda is in units of 0.5 and evEbitda in units of 2.
mapQuoteToStock(quote, existingCost, existingQuantity, existingFavorite) ==
    LET lpa == OrElse(quote.earningsPerShare, 0)
        vpa == OrElse(quote.bookValue, 0)
        price == quote.regularMarketPrice
        roe == FinancialData(quote, "returnOnEquity")
        totalDebt == FinancialData(quote, "totalDebt")
        ebitda == FinancialData(quote, "ebitda")
        debtToEbitda == IF ebitda > 0 THEN (2 * totalDebt) \div ebitda ELSE 0
        grahamValue == Whole(calculateGrahamValue(lpa, vpa))
        pl == OrElse(quote.priceEarnings, 0)
        pvp == IF vpa > 0 THEN Rat(price, vpa) ELSE RatInt(0)
        dividendYield == OrElse(quote.dividendYield, 0)
        enterpriseValue == OrElse(quote.enterpriseValue, 0)
        evEbitda == IF ebitda > 0 /\ enterpriseValue > 0
                    THEN enterpriseValue \div (2 * ebitda) ELSE 0
        netMargin == FinancialData(quote, "profitMargins")
        totalRevenue == FinancialData(quote, "totalRevenue")
        ebitdaMargin == IF totalRevenue > 0 /\ ebitda > 0
                        THEN Rat(ebitda, totalRevenue) ELSE RatInt(0)
        scored == calculateStockScore(
                      [price |-> price, grahamValue |-> grahamValue, roe |-> roe,
                       debtToEbitda |-> debtToEbitda,
                       dividendYield |-> dividendYield, pl |-> pl,
                       evEbitda |-> evEbitda])
    IN [ticker |-> quote.symbol,
        price |-> price,
        cost |-> OrElse(existingCost, 0),
        quantity |-> OrElse(existingQuantity, 0),
        lpa |-> lpa,
        vpa |-> vpa,
        roe |-> roe,
        debtToEbitda |-> debtToEbitda,
        change |-> OrElse(quote.regularMarketChange, 0),
        changePercent |-> OrElse(quote.regularMarketChangePercent, 0),
        score |-> scored.total,
        scoreBreakdown |-> scored.breakdown,
        isFavorite |-> OrElse(existingFavorite, FALSE),
        pl |-> pl,
        pvp |-> pvp,
        dividendYield |-> dividendYield,
        evEbitda |-> evEbitda,
        netMargin |-> netMargin,
        ebitdaMargin |-> ebitdaMargin]

\* x || y on numbers
OrIfZero(x, y) == IF x = 0 THEN y ELSE x

TickersOf(list) == [i \in 1..Len(list) |-> list[i].ticker]
HasTicker(list, t) == \E i \in 1..Len(list) : list[i].ticker = t

\* prev.filter((s) => s.ticker !== ticker)
RECURSIVE Without(_, _)
Without(list, ticker) ==
    IF list = <<>> THEN <<>>
    ELSE IF Head(list).ticker # ticker
         THEN <<Head(list)>> \o Without(Tail(list), ticker)
         ELSE Without(Tail(list), ticker)

RECURSIVE MutRefreshAllUpdate(_, _)
MutRefreshAllUpdate(prev, quotes) ==
    IF prev = <<>> THEN <<>>
    ELSE IF \E q \in quotes : q.symbol = Head(prev).ticker
         THEN <<mapQuoteToStock(CHOOSE q \in quotes : q.symbol = Head(prev).ticker,
                                <<Head(prev).cost>>, <<Head(prev).quantity>>,
                                <<Head(prev).isFavorite>>)>>
                  \o MutRefreshAllUpdate(Tail(prev), quotes)
         ELSE MutRefreshAllUpdate(Tail(prev), quotes)

\* the updater refreshAll hands to setStocks
RefreshAllUpdate(prev, quotes) ==
    [i \in 1..Len(prev) |->
        IF \E q \in quotes : q.symbol = prev[i].ticker
        THEN mapQuoteToStock(CHOOSE q \in quotes : q.symbol = prev[i].ticker,
                             <<prev[i].cost>>, <<prev[i].quantity>>,
                             <<prev[i].isFavorite>>)
        ELSE prev[i]]

MutRefreshStockUpdate(prev, ticker, quote) ==
    [i \in 1..Len(prev) |->
        IF prev[i].ticker = ticker
        THEN mapQuoteToStock(quote, <<prev[i].cost>>, <<prev[i].quantity>>, Absent)
        ELSE prev[i]]

\* the updater refreshStock hands to setStocks
RefreshStockUpdate(prev, ticker, quote) ==
    [i \in 1..Len(prev) |->
        IF prev[i].ticker = ticker
        THEN mapQuoteToStock(quote, <<prev[i].cost>>, <<prev[i].quantity>>,
                             <<prev[i].isFavorite>>)
        ELSE prev[i]]

\* newStock of addStock: the mapped quote with the overrides applied
NewStock(quote, cost, quantity, overrides) ==
    LET mapped == mapQuoteToStock(quote, <<OrIfZero(cost, 0)>>,
                                  <<OrIfZero(quantity, 0)>>, Absent)
    IN [mapped EXCEPT !.lpa = OrElse(overrides.lpa, @),
                      !.vpa = OrElse(overrides.vpa, @)]

MutAddStockUpdate(prev, newStock, cost, quantity) ==
    <<newStock>> \o prev

MutAddStockReplace(prev, newStock, cost, quantity) ==
    IF HasTicker(prev, newStock.ticker)
    THEN [i \in 1..Len(prev) |->
             IF prev[i].ticker = newStock.ticker THEN newStock ELSE prev[i]]
    ELSE <<newStock>> \o prev

\* the updater addStock hands to setStocks
AddStockUpdate(prev, newStock, cost, quantity) ==
    IF HasTicker(prev, newStock.ticker)
    THEN [i \in 1..Len(prev) |->
             IF prev[i].ticker = newStock.ticker
             THEN [newStock EXCEPT !.cost = OrIfZero(cost, prev[i].cost),
                                   !.quantity = OrIfZero(quantity, prev[i].quantity),
                                   !.isFavorite = prev[i].isFavorite]
             ELSE prev[i]]
    ELSE <<newStock>> \o prev

\* the (cost, quantity) pairs the form submits
Positions == {<<0, 0>>, <<1, 2>>}

NoOverrides == [lpa |-> Absent, vpa |-> Absent]
Overrides == {NoOverrides, [lpa |-> <<4>>, vpa |-> <<10>>]}

\* err.message of the Error the fetch threw
FetchError == "fetch failed"

\* inflight is a bag: two calls with the same arguments may be in flight at once
Pending == BagToSet(inflight)
PendingOf(kind) == {r \in Pending : r.kind = kind}
Await(r) == inflight (+) SetToBag({r})
Settle(r) == inflight (-) SetToBag({r})
CanCall == BagCardinality(inflight) < MaxInFlight

Op(name, ticker) == [op |-> name]
OpOn(name, ticker) == [op |-> name, ticker |-> ticker]

HookIdle ==
    /\ scoreIn = [none |-> TRUE] /\ scoreOut = NoResult
    /\ riskStocks = <<>> /\ riskOut = NoResult
    /\ ValuationIdle

\* loadStocksFromStorage on a first visit, and the useState defaults
Init ==
    /\ stocks = <<>>
    /\ isRefreshing = FALSE
    /\ error = Null
    /\ inflight = EmptyBag
    /\ lastOp = [op |-> "init"]
    /\ HookIdle

\* addStock up to its await
AddStockCall(ticker, cost, quantity, overrides) ==
    /\ CanCall
    /\ error' = Null
    /\ inflight' = Await([kind |-> "addStock", ticker |-> ticker, cost |-> cost,
                         quantity |-> quantity, overrides |-> overrides])
    /\ lastOp' = Op("addStockCall", ticker)
    /\ UNCHANGED <<stocks, isRefreshing, scoreVars, riskVars, valuationVars>>

\* addStock after fetchStockQuote has answered
AddStockResolve(r, quote) ==
    /\ r \in PendingOf("addStock")
    /\ quote \in StockQuoteAnswers(r.ticker)
    /\ stocks' = AddStockUpdate(stocks,
                     NewStock(quote, r.cost, r.quantity, r.overrides),
                     r.cost, r.quantity)
    /\ inflight' = Settle(r)
    /\ lastOp' = OpOn("addStockResolve", quote.symbol)
    /\ UNCHANGED <<isRefreshing, error, scoreVars, riskVars, valuationVars>>

\* addStock after fetchStockQuote has thrown; it returns null
AddStockReject(r) ==
    /\ r \in PendingOf("addStock")
    /\ error' = FetchError
    /\ inflight' = Settle(r)
    /\ lastOp' = [op |-> "addStockReject", returned |-> Null]
    /\ UNCHANGED <<stocks, isRefreshing, scoreVars, riskVars, valuationVars>>

\* refreshStock up to its await
RefreshStockCall(ticker) ==
    /\ CanCall
    /\ error' = Null
    /\ inflight' = Await([kind |-> "refreshStock", ticker |-> ticker])
    /\ lastOp' = Op("refreshStockCall", ticker)
    /\ UNCHANGED <<stocks, isRefreshing, scoreVars, riskVars, valuationVars>>

RefreshStockResolve(r, quote) ==
    /\ r \in PendingOf("refreshStock")
    /\ quote \in StockQuoteAnswers(r.ticker)
    /\ stocks' = RefreshStockUpdate(stocks, r.ticker, quote)
    /\ inflight' = Settle(r)
    /\ lastOp' = OpOn("refreshStockResolve", r.ticker)
    /\ UNCHANGED <<isRefreshing, error, scoreVars, riskVars, valuationVars>>

RefreshStockReject(r) ==
    /\ r \in PendingOf("refreshStock")
    /\ error' = FetchError
    /\ inflight' = Settle(r)
    /\ lastOp' = Op("refreshStockReject", r.ticker)
    /\ UNCHANGED <<stocks, isRefreshing, scoreVars, riskVars, valuationVars>>

\* refreshAll up to its await
RefreshAllStart(name) ==
    /\ Len(stocks) # 0
    /\ CanCall
    /\ isRefreshing' = TRUE
    /\ error' = Null
    /\ inflight' = Await([kind |-> "refreshAll", tickers |-> TickersOf(stocks)])
    /\ lastOp' = Op(name, "")
    /\ UNCHANGED <<stocks, scoreVars, riskVars, valuationVars>>

RefreshAllCall == RefreshAllStart("refreshAllCall")

\* the setInterval callback of the polling effect
PollTick == RefreshAllStart("pollTick")

RefreshAllResolve(r, quotes) ==
    /\ r \in PendingOf("refreshAll")
    /\ quotes \in MultipleQuotesAnswers(r.tickers)
    /\ stocks' = RefreshAllUpdate(stocks, quotes)
    /\ isRefreshing' = FALSE
    /\ inflight' = Settle(r)
    /\ lastOp' = Op("refreshAllResolve", "")
    /\ UNCHANGED <<error, scoreVars, riskVars, valuationVars>>

MutRefreshAllReject(r) ==
    /\ r \in PendingOf("refreshAll")
    /\ error' = FetchError
    /\ inflight' = Settle(r)
    /\ lastOp' = Op("refreshAllReject", "")
    /\ UNCHANGED <<stocks, isRefreshing, scoreVars, riskVars, valuationVars>>

RefreshAllReject(r) ==
    /\ r \in PendingOf("refreshAll")
    /\ error' = FetchError
    /\ isRefreshing' = FALSE
    /\ inflight' = Settle(r)
    /\ lastOp' = Op("refreshAllReject", "")
    /\ UNCHANGED <<stocks, scoreVars, riskVars, valuationVars>>

RemoveStock(ticker) ==
    /\ stocks' = Without(stocks, ticker)
    /\ lastOp' = Op("removeStock", ticker)
    /\ UNCHANGED <<isRefreshing, error, inflight, scoreVars, riskVars, valuationVars>>

ToggleFavorite(ticker) ==
    /\ stocks' = [i \in 1..Len(stocks) |->
                     IF stocks[i].ticker = ticker
                     THEN [stocks[i] EXCEPT !.isFavorite = ~@]
                     ELSE stocks[i]]
    /\ lastOp' = Op("toggleFavorite", ticker)
    /\ UNCHANGED <<isRefreshing, error, inflight, scoreVars, riskVars, valuationVars>>

ClearError ==
    /\ error' = Null
    /\ lastOp' = Op("clearError", "")
    /\ UNCHANGED <<stocks, isRefreshing, inflight, scoreVars, riskVars, valuationVars>>

\* the steps of the hook, for calls drawn from the given tickers and overrides
NextOn(tickers, overrides) ==
    \/ \E t \in tickers, p \in Positions, o \in overrides :
          AddStockCall(t, p[1], p[2], o)
    \/ \E r \in PendingOf("addStock") :
          \E quote \in StockQuoteAnswers(r.ticker) : AddStockResolve(r, quote)
    \/ \E r \in PendingOf("addStock") : AddStockReject(r)
    \/ \E t \in tickers : RefreshStockCall(t)
    \/ \E r \in PendingOf("refreshStock") :
          \E quote \in StockQuoteAnswers(r.ticker) : RefreshStockResolve(r, quote)
    \/ \E r \in PendingOf("refreshStock") : RefreshStockReject(r)
    \/ RefreshAllCall
    \/ PollTick
    \/ \E r \in PendingOf("refreshAll") :
          \E quotes \in MultipleQuotesAnswers(r.tickers) : RefreshAllResolve(r, quotes)
    \/ \E r \in PendingOf("refreshAll") : RefreshAllReject(r)
    \/ \E t \in tickers : RemoveStock(t)
    \/ \E t \in tickers : ToggleFavorite(t)
    \/ ClearError

Next == NextOn(InputTickers, {NoOverrides})

Spec == Init /\ [][Next]_vars

NoDuplicateTickers ==
    \A i, j \in 1..Len(stocks) : i # j => stocks[i].ticker # stocks[j].ticker

\* C8: after any interleaving of addStock, removeStock, toggleFavorite,
\* refreshStock and refreshAll (two addStock calls for one ticker in flight at
\* once included) no two holdings of the list have the same ticker.
C8_UniqueTickers == NoDuplicateTickers

\* an addStock for A has been applied while another addStock for the same
\* symbol, called before that, is still in flight
C8_Witness ==
    /\ lastOp = OpOn("addStockResolve", "A")
    /\ \E r \in PendingOf("addStock") : ToUpperCase(r.ticker) = "A"
    /\ Len(stocks) = 2
    /\ NoDuplicateTickers

\* what a refresh must leave alone in every holding
PositionKept ==
    /\ Len(stocks') = Len(stocks)
    /\ \A i \in 1..Len(stocks) :
          /\ stocks'[i].ticker = stocks[i].ticker
          /\ stocks'[i].cost = stocks[i].cost
          /\ stocks'[i].quantity = stocks[i].quantity
          /\ stocks'[i].isFavorite = stocks[i].isFavorite

Requested(r) == {r.tickers[i] : i \in 1..Len(r.tickers)}

\* the request r is the one this step settles
Settled(r) == CopiesIn(r, inflight') = CopiesIn(r, inflight) - 1

\* C9: a refresh that succeeds leaves ticker, cost, quantity and isFavorite of
\* every holding as they were when its result is applied, and changes nothing
\* in a holding it did not refresh.
C9_RefreshFrame ==
    [][\A r \in Pending :
          /\ (Settled(r) /\ lastOp'.op = "refreshStockResolve")
             => /\ PositionKept
                /\ \A i \in 1..Len(stocks) :
                      stocks[i].ticker # r.ticker => stocks'[i] = stocks[i]
          /\ (Settled(r) /\ lastOp'.op = "refreshAllResolve")
             => /\ PositionKept
                /\ \A i \in 1..Len(stocks) :
                      stocks[i].ticker \notin Requested(r) => stocks'[i] = stocks[i]
      ]_vars

\* refreshStock("A") has been applied to a favourite holding with a position
C9_Witness ==
    /\ lastOp = OpOn("refreshStockResolve", "A")
    /\ \E i \in 1..Len(stocks) :
          /\ stocks[i].ticker = "A"
          /\ stocks[i].isFavorite
          /\ stocks[i].cost = 1 /\ stocks[i].quantity = 2
          /\ stocks[i].price = 20

\* C24: when the response of a refreshStock or of a refreshAll is applied,
\* the list has the same length and the same tickers in the same order as
\* immediately before: a holding removed while the refresh was in flight is
\* not re-added, and a holding added meanwhile is kept.
C24_RefreshKeepsTickers ==
    [][lastOp'.op \in {"refreshStockResolve", "refreshAllResolve"}
          => TickersOf(stocks') = TickersOf(stocks)]_vars

C24_Witness ==
    /\ lastOp = OpOn("refreshStockResolve", "A")
    /\ ~HasTicker(stocks, "A")
    /\ TickersOf(stocks) = <<"B">>

\* C25: isRefreshing is true in every state in which at least one refreshAll
\* request is awaiting its response, overlapping manual and poll-timer
\* requests included.
C25_RefreshingWhileInFlight ==
    (PendingOf("refreshAll") # {}) => isRefreshing

\* C26: when the fetch fails, addStock, refreshStock and refreshAll leave the
\* list unchanged and set a non-null error; addStock returns null and
\* refreshAll sets isRefreshing to false.
C26_FetchFailure ==
    [][/\ lastOp'.op \in {"addStockReject", "refreshStockReject", "refreshAllReject"}
          => (stocks' = stocks /\ error' # Null)
       /\ lastOp'.op = "addStockReject" => lastOp'.returned = Null
       /\ lastOp'.op = "refreshAllReject" => isRefreshing' = FALSE]_vars

C26_Witness ==
    /\ lastOp.op = "refreshAllReject"
    /\ Len(stocks) = 2
    /\ error = FetchError
    /\ isRefreshing = FALSE

\* x when it is non-zero, and y when x is 0
SuppliedOr(x, y) == IF x # 0 THEN x ELSE y

\* C27: a successful addStock for a ticker of the list replaces that holding
\* in place, keeps its isFavorite and takes the supplied cost and quantity
\* where non-zero and the previous ones where 0; for a new ticker the holding
\* is inserted at the front and the others are unchanged.
C27_AddStockPlacement ==
    [][\A r \in PendingOf("addStock") :
          (Settled(r) /\ lastOp'.op = "addStockResolve") =>
              LET t == lastOp'.ticker
              IN IF HasTicker(stocks, t)
                 THEN /\ Len(stocks') = Len(stocks)
                      /\ \A i \in 1..Len(stocks) :
                            IF stocks[i].ticker = t
                            THEN /\ stocks'[i].ticker = t
                                 /\ stocks'[i].isFavorite = stocks[i].isFavorite
                                 /\ stocks'[i].cost = SuppliedOr(r.cost, stocks[i].cost)
                                 /\ stocks'[i].quantity
                                       = SuppliedOr(r.quantity, stocks[i].quantity)
                            ELSE stocks'[i] = stocks[i]
                 ELSE /\ Len(stocks') = Len(stocks) + 1
                      /\ stocks'[1].ticker = t
                      /\ stocks'[1].cost = r.cost
                      /\ stocks'[1].quantity = r.quantity
                      /\ \A i \in 1..Len(stocks) : stocks'[i + 1] = stocks[i]]_vars

C27_Witness ==
    /\ lastOp = OpOn("addStockResolve", "A")
    /\ Len(stocks) = 2
    /\ stocks[2].ticker = "A"
    /\ stocks[2].isFavorite
    /\ stocks[2].cost = 1 /\ stocks[2].quantity = 2
    /\ stocks[2].price = 10

----------------------------------------------------------------------------
(* The hook with addStock called on one ticker, with and without overrides *)

NextOverrides == NextOn({"A"}, Overrides)

SpecOverrides == Init /\ [][NextOverrides]_vars

\* calculateStockScore on the stored fields of a holding
ScoreOfStored(s) ==
    calculateStockScore(
        [price |-> s.price,
         grahamValue |-> Whole(calculateGrahamValue(s.lpa, s.vpa)),
         roe |-> s.roe, debtToEbitda |-> s.debtToEbitda,
         dividendYield |-> s.dividendYield, pl |-> s.pl,
         evEbitda |-> s.evEbitda])

\* C23: the stored score and scoreBreakdown of every holding of the list are
\* calculateStockScore of the holding's own stored fields, holdings added
\* with lpa / vpa overrides included.
C23_StoredScore ==
    \A i \in 1..Len(stocks) :
        /\ stocks[i].score = ScoreOfStored(stocks[i]).total
        /\ stocks[i].scoreBreakdown = ScoreOfStored(stocks[i]).breakdown

----------------------------------------------------------------------------
(* components/stocks/PortfolioDashboard.tsx: the metrics memo.  Prices, costs *)
(* and quantities are whole units; a return is an exact quotient.            *)

MutCalculateROI(currentPrice, costPrice) ==
    IF costPrice <= 0 THEN RatInt(0)
    ELSE Rat(currentPrice, costPrice)

\* lib/calculators: calculateROI
calculateROI(currentPrice, costPrice) ==
    IF costPrice <= 0 THEN RatInt(0)
    ELSE RatSub(Rat(currentPrice, costPrice), RatInt(1))

\* stocks.filter((s) => s.quantity > 0 && s.cost > 0)
RECURSIVE PositionsOf(_)
PositionsOf(list) ==
    IF list = <<>> THEN <<>>
    ELSE IF Head(list).quantity > 0 /\ Head(list).cost > 0
         THEN <<Head(list)>> \o PositionsOf(Tail(list))
         ELSE PositionsOf(Tail(list))

\* withPosition.reduce((sum, s) => sum + s.cost * s.quantity, 0)
RECURSIVE TotalInvested(_)
TotalInvested(withPosition) ==
    IF withPosition = <<>> THEN 0
    ELSE TotalInvested(SubSeq(withPosition, 1, Len(withPosition) - 1))
            + withPosition[Len(withPosition)].cost
                 * withPosition[Len(withPosition)].quantity

\* withPosition.reduce((sum, s) => sum + s.price * s.quantity, 0)
RECURSIVE TotalCurrent(_)
TotalCurrent(withPosition) ==
    IF withPosition = <<>> THEN 0
    ELSE TotalCurrent(SubSeq(withPosition, 1, Len(withPosition) - 1))
            + withPosition[Len(withPosition)].price
                 * withPosition[Len(withPosition)].quantity

\* best and worst before the loop
NoPerformer == [null |-> TRUE]

\* the best / worst loop over the rest of withPosition
RECURSIVE BestWorstLoop(_, _)
BestWorstLoop(rest, acc) ==
    IF rest = <<>> THEN acc
    ELSE LET s == Head(rest)
             roi == calculateROI(s.price, s.cost)
             isBest == acc.best = NoPerformer \/ RatLess(acc.best.roi, roi)
             isWorst == acc.worst = NoPerformer \/ RatLess(roi, acc.worst.roi)
         IN BestWorstLoop(Tail(rest),
                [best |-> IF isBest THEN [ticker |-> s.ticker, roi |-> roi]
                          ELSE acc.best,
                 worst |-> IF isWorst THEN [ticker |-> s.ticker, roi |-> roi]
                           ELSE acc.worst])

\* the totals, the blended return and the best and worst holdings of metrics
PortfolioMetrics(list) ==
    LET withPosition == PositionsOf(list)
        totalInvested == TotalInvested(withPosition)
        totalCurrent == TotalCurrent(withPosition)
        totalGain == totalCurrent - totalInvested
        totalROI == IF totalInvested > 0 THEN Rat(totalGain, totalInvested)
                    ELSE RatInt(0)
        end == BestWorstLoop(withPosition,
                             [best |-> NoPerformer, worst |-> NoPerformer])
    IN [totalInvested |-> totalInvested,
        totalCurrent |-> totalCurrent,
        totalGain |-> totalGain,
        totalROI |-> totalROI,
        best |-> end.best,
        worst |-> end.worst,
        positionCount |-> Len(withPosition)]

----------------------------------------------------------------------------
(* The portfolio snapshot of one holdings list *)

DashboardHoldingFields ==
    [price : 0..MaxMarketPrice, cost : 0..MaxCost, quantity : 0..MaxShares]

DashboardHolding(i, f) ==
    [ticker |-> RiskTickers[i], price |-> f.price, cost |-> f.cost,
     quantity |-> f.quantity]

DashboardLists(maxPositions) ==
    UNION {{[i \in 1..n |-> DashboardHolding(i, f[i])]
               : f \in [1..n -> DashboardHoldingFields]}
           : n \in 0..maxPositions}

InitDashboard ==
    /\ formulaIn \in [fn : {"PortfolioDashboard"},
                      stocks : DashboardLists(MaxPositions)]
    /\ formulaOut = NoResult
    /\ FormulaIdle

PortfolioDashboard ==
    /\ formulaOut = NoResult
    /\ formulaIn.fn = "PortfolioDashboard"
    /\ formulaOut' = PortfolioMetrics(formulaIn.stocks)
    /\ UNCHANGED <<formulaIn, dcfStock, dcfOut, scoreVars, riskVars, hookVars>>

NextDashboard == PortfolioDashboard

SpecDashboard == InitDashboard /\ [][NextDashboard]_vars

\* some holding has quantity > 0 and cost > 0
HasPosition ==
    \E i \in 1..Len(formulaIn.stocks) :
        formulaIn.stocks[i].quantity > 0 /\ formulaIn.stocks[i].cost > 0

----------------------------------------------------------------------------
(* components/stocks/DCFValuation.tsx: the valuations and summary memos and  *)
(* the label of each row                                                     *)

\* getValuationLabel (the label of its result)
getValuationLabel(upside) ==
    IF NumLess(NumOf(2, 10), upside) THEN "Subvalorizada"
    ELSE IF NumLess(NumOf(-1, 10), upside) THEN "Preco Justo"
    ELSE "Sobrevalorizada"

\* stocks.filter((s) => s.lpa > 0).map(...): the stock and dcf of each entry
RECURSIVE ValuationsOf(_)
ValuationsOf(list) ==
    IF list = <<>> THEN <<>>
    ELSE IF Head(list).lpa > 0
         THEN <<[stock |-> Head(list), dcf |-> calculateDCF(Head(list))]>>
                 \o ValuationsOf(Tail(list))
         ELSE ValuationsOf(Tail(list))

\* v placed in a list sorted by descending upside, after the entries that
\* do not sort after it
RECURSIVE InsertByUpside(_, _)
InsertByUpside(v, sorted) ==
    IF sorted = <<>> THEN <<v>>
    ELSE IF NumLess(Head(sorted).dcf.upside, v.dcf.upside)
         THEN <<v>> \o sorted
         ELSE <<Head(sorted)>> \o InsertByUpside(v, Tail(sorted))

\* .sort((a, b) => b.dcf.upside - a.dcf.upside), a stable sort
RECURSIVE SortByUpside(_)
SortByUpside(list) ==
    IF list = <<>> THEN <<>>
    ELSE InsertByUpside(list[Len(list)],
                        SortByUpside(SubSeq(list, 1, Len(list) - 1)))

\* valuations.reduce((sum, v) => sum + v.dcf.upside, 0)
RECURSIVE UpsideSum(_)
UpsideSum(valuations) ==
    IF valuations = <<>> THEN NumZero
    ELSE NumAdd(UpsideSum(SubSeq(valuations, 1, Len(valuations) - 1)),
                valuations[Len(valuations)].dcf.upside)

\* valuations.filter((v) => v.dcf.upside > 0.2).length
UndervaluedCount(valuations) ==
    Cardinality({i \in 1..Len(valuations) :
                    NumLess(NumOf(2, 10), valuations[i].dcf.upside)})

\* valuations.filter((v) => v.dcf.upside < -0.1).length
OvervaluedCount(valuations) ==
    Cardinality({i \in 1..Len(valuations) :
                    NumLess(valuations[i].dcf.upside, NumOf(-1, 10))})

\* the summary memo
Summary(valuations) ==
    IF Len(valuations) = 0
    THEN [avgUpside |-> NumZero, undervalued |-> 0, overvalued |-> 0, fair |-> 0]
    ELSE LET undervalued == UndervaluedCount(valuations)
             overvalued == OvervaluedCount(valuations)
         IN [avgUpside |-> NumDiv(UpsideSum(valuations),
                                  NumOf(Len(valuations), 1)),
             undervalued |-> undervalued,
             overvalued |-> overvalued,
             fair |-> Len(valuations) - undervalued - overvalued]

Min(a, b) == IF a < b THEN a ELSE b

\* valuations.slice(0, 8).map(... getValuationLabel(dcf.upside) ...)
RowLabels(valuations) ==
    [i \in 1..Min(Len(valuations), 8) |->
        [ticker |-> valuations[i].stock.ticker,
         label |-> getValuationLabel(valuations[i].dcf.upside)]]

\* what the panel shows of its valuations: their number, the summary and
\* the row labels
Panel(valuations) ==
    [valued |-> Len(valuations),
     summary |-> Summary(valuations),
     rows |-> RowLabels(valuations)]

----------------------------------------------------------------------------
(* The DCF panel of one holdings list.  lpa is in steps of 216 and price in  *)
(* steps of 815 currency units, roe is 15%: a holding of lpa 216 is worth    *)
(* 2934, its upside is exactly 0.2 at price 2445 and exactly -0.1 at 3260.   *)

ValuedHoldingFields == [lpa : 0..MaxLpaSteps, price : 0..MaxPriceSteps]

ValuedHolding(i, f) ==
    [ticker |-> RiskTickers[i], lpa |-> 216 * f.lpa, roe |-> 15,
     price |-> 815 * f.price]

ValuedLists(maxValued) ==
    UNION {{[i \in 1..n |-> ValuedHolding(i, f[i])]
               : f \in [1..n -> ValuedHoldingFields]}
           : n \in 0..maxValued}

InitDCFValuation ==
    /\ formulaIn \in [fn : {"DCFValuation"}, stocks : ValuedLists(MaxValued)]
    /\ formulaOut = NoResult
    /\ FormulaIdle

DCFValuation ==
    /\ formulaOut = NoResult
    /\ formulaIn.fn = "DCFValuation"
    /\ formulaOut' = Panel(SortByUpside(ValuationsOf(formulaIn.stocks)))
    /\ UNCHANGED <<formulaIn, dcfStock, dcfOut, scoreVars, riskVars, hookVars>>

NextDCFValuation == DCFValuation

SpecDCFValuation == InitDCFValuation /\ [][NextDCFValuation]_vars

\* the number of rows of the panel that carry the label
Labelled(label) ==
    Cardinality({i \in 1..Len(formulaOut.rows) : formulaOut.rows[i].label = label})

\* C30: each valued holding is counted by the summary in the class of its
\* row's label (undervalued with Subvalorizada, fair with Preco Justo,
\* overvalued with Sobrevalorizada), at upside exactly 0.2 and exactly -0.1
\* too, and undervalued + fair + overvalued is the number of valued holdings.
C30_LabelMatchesBucket ==
    Returned("DCFValuation") =>
        /\ formulaOut.summary.undervalued = Labelled("Subvalorizada")
        /\ formulaOut.summary.fair = Labelled("Preco Justo")
        /\ formulaOut.summary.overvalued = Labelled("Sobrevalorizada")
        /\ formulaOut.summary.undervalued + formulaOut.summary.fair
              + formulaOut.summary.overvalued = formulaOut.valued

====
